---------------------------- MODULE Spec2Model ----------------------------
(***************************************************************************)
(* Model of src/script.py: the timetable mapping builder                   *)
(* (get_class_columns, get_period_blocks, extract_mapping,                 *)
(* build_full_mapping) and the schedule annotator (TOKEN_RE,               *)
(* annotate_schedule).                                                     *)
(*                                                                         *)
(* A Python str is the sequence of its code points (49, 65, 49 for "1A1"); *)
(* Str(<<"1", "A", "1">>) writes one from its characters.  A cell value is *)
(* a record [t, s]: t is "none" (None), "int" (a number) or "str", and s   *)
(* is str(value) for the last two.                                         *)
(***************************************************************************)
EXTENDS Integers, Sequences, FiniteSets, TLC

VARIABLES
    wb,             \* target workbook: cells in annotate_schedule's visiting order
    mapping,        \* lookup table handed to annotate_schedule
    cells_updated,  \* first component of annotate_schedule's last return value
    unmatched,      \* second component of annotate_schedule's last return value
    runs,           \* number of annotate_schedule calls made on wb
    wb_before,      \* wb as it was when the last call started
    src,            \* source workbook (File A): its worksheets in order
    out,            \* build_full_mapping's locals per worksheet: class_cols, period_blocks, m
    overall,        \* the table build_full_mapping returns
    built,          \* build_full_mapping has returned
    sheet,          \* the worksheet get_period_blocks is called on
    pc,             \* get_period_blocks: "start", "scan" or "done"
    r,              \* get_period_blocks: the fallback scan's row
    blocks,         \* get_period_blocks: the blocks found so far
    found_any       \* get_period_blocks: the merged ranges gave a block

annVars == <<wb, mapping, cells_updated, unmatched, runs, wb_before>>

buildVars == <<src, out, overall, built>>

blockVars == <<sheet, pc, r, blocks, found_any>>

vars == <<annVars, buildVars, blockVars>>

----------------------------------------------------------------------------
(* Characters are Unicode code points, the values of Python's ord(), and a  *)
(* str is the sequence of its code points.  The classes below are those of *)
(* CPython 3.11 (Unicode 14.0.0) on the whole range 0..0x10FFFF.           *)

\* the printable ASCII characters the texts of this module are written
\* with, in code-point order: 0x20-0x5F, then 0x61-0x7E
Printable ==
    <<" ", "!", "\"", "#", "$", "%", "&", "'", "(", ")", "*", "+", ",", "-", ".", "/",
      "0", "1", "2", "3", "4", "5", "6", "7", "8", "9", ":", ";", "<", "=", ">", "?",
      "@", "A", "B", "C", "D", "E", "F", "G", "H", "I", "J", "K", "L", "M", "N", "O",
      "P", "Q", "R", "S", "T", "U", "V", "W", "X", "Y", "Z", "[", "\\", "]", "^", "_",
      "a", "b", "c", "d", "e", "f", "g", "h", "i", "j", "k", "l", "m", "n", "o",
      "p", "q", "r", "s", "t", "u", "v", "w", "x", "y", "z", "{", "|", "}", "~">>

\* ord(ch)
Ord(ch) ==
    IF ch = "\n" THEN 10
    ELSE LET k == CHOOSE j \in 1..Len(Printable) : Printable[j] = ch
         IN  IF k <= 64 THEN 31 + k ELSE 32 + k

\* the str written with the characters s
Str(s) == [k \in 1..Len(s) |-> Ord(s[k])]

\* c lies in one of the ranges <<first, last>>
InRanges(c, rgs) == \E rg \in rgs : rg[1] <= c /\ c <= rg[2]

\* Each class is a table of code-point ranges, the ranges below 0x100 and
\* the ranges from 0x100 on.

\* str.isdecimal(): the digits 0-9 and the decimal digits of the other
\* scripts
DecimalLatin1 == {
    <<48, 57>> }

DecimalAbove == {
    <<1632, 1641>>, <<1776, 1785>>, <<1984, 1993>>, <<2406, 2415>>, <<2534, 2543>>, <<2662, 2671>>,
    <<2790, 2799>>, <<2918, 2927>>, <<3046, 3055>>, <<3174, 3183>>, <<3302, 3311>>, <<3430, 3439>>,
    <<3558, 3567>>, <<3664, 3673>>, <<3792, 3801>>, <<3872, 3881>>, <<4160, 4169>>, <<4240, 4249>>,
    <<6112, 6121>>, <<6160, 6169>>, <<6470, 6479>>, <<6608, 6617>>, <<6784, 6793>>, <<6800, 6809>>,
    <<6992, 7001>>, <<7088, 7097>>, <<7232, 7241>>, <<7248, 7257>>, <<42528, 42537>>, <<43216, 43225>>,
    <<43264, 43273>>, <<43472, 43481>>, <<43504, 43513>>, <<43600, 43609>>, <<44016, 44025>>, <<65296, 65305>>,
    <<66720, 66729>>, <<68912, 68921>>, <<69734, 69743>>, <<69872, 69881>>, <<69942, 69951>>, <<70096, 70105>>,
    <<70384, 70393>>, <<70736, 70745>>, <<70864, 70873>>, <<71248, 71257>>, <<71360, 71369>>, <<71472, 71481>>,
    <<71904, 71913>>, <<72016, 72025>>, <<72784, 72793>>, <<73040, 73049>>, <<73120, 73129>>, <<92768, 92777>>,
    <<92864, 92873>>, <<93008, 93017>>, <<120782, 120831>>, <<123200, 123209>>, <<123632, 123641>>, <<125264, 125273>>,
    <<130032, 130041>> }

\* \d on a str pattern
IsDecimal(c) ==
    IF c < 256 THEN InRanges(c, DecimalLatin1) ELSE InRanges(c, DecimalAbove)

\* [A-Z]
Upper == Ord("A")..Ord("Z")

\* str.isalnum(): the letters and numerals
AlnumLatin1 == {
    <<48, 57>>, <<65, 90>>, <<97, 122>>, <<170, 170>>, <<178, 179>>, <<181, 181>>,
    <<185, 186>>, <<188, 190>>, <<192, 214>>, <<216, 246>>, <<248, 255>> }

AlnumAbove == {
    <<256, 705>>, <<710, 721>>, <<736, 740>>, <<748, 748>>, <<750, 750>>, <<880, 884>>,
    <<886, 887>>, <<890, 893>>, <<895, 895>>, <<902, 902>>, <<904, 906>>, <<908, 908>>,
    <<910, 929>>, <<931, 1013>>, <<1015, 1153>>, <<1162, 1327>>, <<1329, 1366>>, <<1369, 1369>>,
    <<1376, 1416>>, <<1488, 1514>>, <<1519, 1522>>, <<1568, 1610>>, <<1632, 1641>>, <<1646, 1647>>,
    <<1649, 1747>>, <<1749, 1749>>, <<1765, 1766>>, <<1774, 1788>>, <<1791, 1791>>, <<1808, 1808>>,
    <<1810, 1839>>, <<1869, 1957>>, <<1969, 1969>>, <<1984, 2026>>, <<2036, 2037>>, <<2042, 2042>>,
    <<2048, 2069>>, <<2074, 2074>>, <<2084, 2084>>, <<2088, 2088>>, <<2112, 2136>>, <<2144, 2154>>,
    <<2160, 2183>>, <<2185, 2190>>, <<2208, 2249>>, <<2308, 2361>>, <<2365, 2365>>, <<2384, 2384>>,
    <<2392, 2401>>, <<2406, 2415>>, <<2417, 2432>>, <<2437, 2444>>, <<2447, 2448>>, <<2451, 2472>>,
    <<2474, 2480>>, <<2482, 2482>>, <<2486, 2489>>, <<2493, 2493>>, <<2510, 2510>>, <<2524, 2525>>,
    <<2527, 2529>>, <<2534, 2545>>, <<2548, 2553>>, <<2556, 2556>>, <<2565, 2570>>, <<2575, 2576>>,
    <<2579, 2600>>, <<2602, 2608>>, <<2610, 2611>>, <<2613, 2614>>, <<2616, 2617>>, <<2649, 2652>>,
    <<2654, 2654>>, <<2662, 2671>>, <<2674, 2676>>, <<2693, 2701>>, <<2703, 2705>>, <<2707, 2728>>,
    <<2730, 2736>>, <<2738, 2739>>, <<2741, 2745>>, <<2749, 2749>>, <<2768, 2768>>, <<2784, 2785>>,
    <<2790, 2799>>, <<2809, 2809>>, <<2821, 2828>>, <<2831, 2832>>, <<2835, 2856>>, <<2858, 2864>>,
    <<2866, 2867>>, <<2869, 2873>>, <<2877, 2877>>, <<2908, 2909>>, <<2911, 2913>>, <<2918, 2927>>,
    <<2929, 2935>>, <<2947, 2947>>, <<2949, 2954>>, <<2958, 2960>>, <<2962, 2965>>, <<2969, 2970>>,
    <<2972, 2972>>, <<2974, 2975>>, <<2979, 2980>>, <<2984, 2986>>, <<2990, 3001>>, <<3024, 3024>>,
    <<3046, 3058>>, <<3077, 3084>>, <<3086, 3088>>, <<3090, 3112>>, <<3114, 3129>>, <<3133, 3133>>,
    <<3160, 3162>>, <<3165, 3165>>, <<3168, 3169>>, <<3174, 3183>>, <<3192, 3198>>, <<3200, 3200>>,
    <<3205, 3212>>, <<3214, 3216>>, <<3218, 3240>>, <<3242, 3251>>, <<3253, 3257>>, <<3261, 3261>>,
    <<3293, 3294>>, <<3296, 3297>>, <<3302, 3311>>, <<3313, 3314>>, <<3332, 3340>>, <<3342, 3344>>,
    <<3346, 3386>>, <<3389, 3389>>, <<3406, 3406>>, <<3412, 3414>>, <<3416, 3425>>, <<3430, 3448>>,
    <<3450, 3455>>, <<3461, 3478>>, <<3482, 3505>>, <<3507, 3515>>, <<3517, 3517>>, <<3520, 3526>>,
    <<3558, 3567>>, <<3585, 3632>>, <<3634, 3635>>, <<3648, 3654>>, <<3664, 3673>>, <<3713, 3714>>,
    <<3716, 3716>>, <<3718, 3722>>, <<3724, 3747>>, <<3749, 3749>>, <<3751, 3760>>, <<3762, 3763>>,
    <<3773, 3773>>, <<3776, 3780>>, <<3782, 3782>>, <<3792, 3801>>, <<3804, 3807>>, <<3840, 3840>>,
    <<3872, 3891>>, <<3904, 3911>>, <<3913, 3948>>, <<3976, 3980>>, <<4096, 4138>>, <<4159, 4169>>,
    <<4176, 4181>>, <<4186, 4189>>, <<4193, 4193>>, <<4197, 4198>>, <<4206, 4208>>, <<4213, 4225>>,
    <<4238, 4238>>, <<4240, 4249>>, <<4256, 4293>>, <<4295, 4295>>, <<4301, 4301>>, <<4304, 4346>>,
    <<4348, 4680>>, <<4682, 4685>>, <<4688, 4694>>, <<4696, 4696>>, <<4698, 4701>>, <<4704, 4744>>,
    <<4746, 4749>>, <<4752, 4784>>, <<4786, 4789>>, <<4792, 4798>>, <<4800, 4800>>, <<4802, 4805>>,
    <<4808, 4822>>, <<4824, 4880>>, <<4882, 4885>>, <<4888, 4954>>, <<4969, 4988>>, <<4992, 5007>>,
    <<5024, 5109>>, <<5112, 5117>>, <<5121, 5740>>, <<5743, 5759>>, <<5761, 5786>>, <<5792, 5866>>,
    <<5870, 5880>>, <<5888, 5905>>, <<5919, 5937>>, <<5952, 5969>>, <<5984, 5996>>, <<5998, 6000>>,
    <<6016, 6067>>, <<6103, 6103>>, <<6108, 6108>>, <<6112, 6121>>, <<6128, 6137>>, <<6160, 6169>>,
    <<6176, 6264>>, <<6272, 6276>>, <<6279, 6312>>, <<6314, 6314>>, <<6320, 6389>>, <<6400, 6430>>,
    <<6470, 6509>>, <<6512, 6516>>, <<6528, 6571>>, <<6576, 6601>>, <<6608, 6618>>, <<6656, 6678>>,
    <<6688, 6740>>, <<6784, 6793>>, <<6800, 6809>>, <<6823, 6823>>, <<6917, 6963>>, <<6981, 6988>>,
    <<6992, 7001>>, <<7043, 7072>>, <<7086, 7141>>, <<7168, 7203>>, <<7232, 7241>>, <<7245, 7293>>,
    <<7296, 7304>>, <<7312, 7354>>, <<7357, 7359>>, <<7401, 7404>>, <<7406, 7411>>, <<7413, 7414>>,
    <<7418, 7418>>, <<7424, 7615>>, <<7680, 7957>>, <<7960, 7965>>, <<7968, 8005>>, <<8008, 8013>>,
    <<8016, 8023>>, <<8025, 8025>>, <<8027, 8027>>, <<8029, 8029>>, <<8031, 8061>>, <<8064, 8116>>,
    <<8118, 8124>>, <<8126, 8126>>, <<8130, 8132>>, <<8134, 8140>>, <<8144, 8147>>, <<8150, 8155>>,
    <<8160, 8172>>, <<8178, 8180>>, <<8182, 8188>>, <<8304, 8305>>, <<8308, 8313>>, <<8319, 8329>>,
    <<8336, 8348>>, <<8450, 8450>>, <<8455, 8455>>, <<8458, 8467>>, <<8469, 8469>>, <<8473, 8477>>,
    <<8484, 8484>>, <<8486, 8486>>, <<8488, 8488>>, <<8490, 8493>>, <<8495, 8505>>, <<8508, 8511>>,
    <<8517, 8521>>, <<8526, 8526>>, <<8528, 8585>>, <<9312, 9371>>, <<9450, 9471>>, <<10102, 10131>>,
    <<11264, 11492>>, <<11499, 11502>>, <<11506, 11507>>, <<11517, 11517>>, <<11520, 11557>>, <<11559, 11559>>,
    <<11565, 11565>>, <<11568, 11623>>, <<11631, 11631>>, <<11648, 11670>>, <<11680, 11686>>, <<11688, 11694>>,
    <<11696, 11702>>, <<11704, 11710>>, <<11712, 11718>>, <<11720, 11726>>, <<11728, 11734>>, <<11736, 11742>>,
    <<11823, 11823>>, <<12293, 12295>>, <<12321, 12329>>, <<12337, 12341>>, <<12344, 12348>>, <<12353, 12438>>,
    <<12445, 12447>>, <<12449, 12538>>, <<12540, 12543>>, <<12549, 12591>>, <<12593, 12686>>, <<12690, 12693>>,
    <<12704, 12735>>, <<12784, 12799>>, <<12832, 12841>>, <<12872, 12879>>, <<12881, 12895>>, <<12928, 12937>>,
    <<12977, 12991>>, <<13312, 19903>>, <<19968, 42124>>, <<42192, 42237>>, <<42240, 42508>>, <<42512, 42539>>,
    <<42560, 42606>>, <<42623, 42653>>, <<42656, 42735>>, <<42775, 42783>>, <<42786, 42888>>, <<42891, 42954>>,
    <<42960, 42961>>, <<42963, 42963>>, <<42965, 42969>>, <<42994, 43009>>, <<43011, 43013>>, <<43015, 43018>>,
    <<43020, 43042>>, <<43056, 43061>>, <<43072, 43123>>, <<43138, 43187>>, <<43216, 43225>>, <<43250, 43255>>,
    <<43259, 43259>>, <<43261, 43262>>, <<43264, 43301>>, <<43312, 43334>>, <<43360, 43388>>, <<43396, 43442>>,
    <<43471, 43481>>, <<43488, 43492>>, <<43494, 43518>>, <<43520, 43560>>, <<43584, 43586>>, <<43588, 43595>>,
    <<43600, 43609>>, <<43616, 43638>>, <<43642, 43642>>, <<43646, 43695>>, <<43697, 43697>>, <<43701, 43702>>,
    <<43705, 43709>>, <<43712, 43712>>, <<43714, 43714>>, <<43739, 43741>>, <<43744, 43754>>, <<43762, 43764>>,
    <<43777, 43782>>, <<43785, 43790>>, <<43793, 43798>>, <<43808, 43814>>, <<43816, 43822>>, <<43824, 43866>>,
    <<43868, 43881>>, <<43888, 44002>>, <<44016, 44025>>, <<44032, 55203>>, <<55216, 55238>>, <<55243, 55291>>,
    <<63744, 64109>>, <<64112, 64217>>, <<64256, 64262>>, <<64275, 64279>>, <<64285, 64285>>, <<64287, 64296>>,
    <<64298, 64310>>, <<64312, 64316>>, <<64318, 64318>>, <<64320, 64321>>, <<64323, 64324>>, <<64326, 64433>>,
    <<64467, 64829>>, <<64848, 64911>>, <<64914, 64967>>, <<65008, 65019>>, <<65136, 65140>>, <<65142, 65276>>,
    <<65296, 65305>>, <<65313, 65338>>, <<65345, 65370>>, <<65382, 65470>>, <<65474, 65479>>, <<65482, 65487>>,
    <<65490, 65495>>, <<65498, 65500>>, <<65536, 65547>>, <<65549, 65574>>, <<65576, 65594>>, <<65596, 65597>>,
    <<65599, 65613>>, <<65616, 65629>>, <<65664, 65786>>, <<65799, 65843>>, <<65856, 65912>>, <<65930, 65931>>,
    <<66176, 66204>>, <<66208, 66256>>, <<66273, 66299>>, <<66304, 66339>>, <<66349, 66378>>, <<66384, 66421>>,
    <<66432, 66461>>, <<66464, 66499>>, <<66504, 66511>>, <<66513, 66517>>, <<66560, 66717>>, <<66720, 66729>>,
    <<66736, 66771>>, <<66776, 66811>>, <<66816, 66855>>, <<66864, 66915>>, <<66928, 66938>>, <<66940, 66954>>,
    <<66956, 66962>>, <<66964, 66965>>, <<66967, 66977>>, <<66979, 66993>>, <<66995, 67001>>, <<67003, 67004>>,
    <<67072, 67382>>, <<67392, 67413>>, <<67424, 67431>>, <<67456, 67461>>, <<67463, 67504>>, <<67506, 67514>>,
    <<67584, 67589>>, <<67592, 67592>>, <<67594, 67637>>, <<67639, 67640>>, <<67644, 67644>>, <<67647, 67669>>,
    <<67672, 67702>>, <<67705, 67742>>, <<67751, 67759>>, <<67808, 67826>>, <<67828, 67829>>, <<67835, 67867>>,
    <<67872, 67897>>, <<67968, 68023>>, <<68028, 68047>>, <<68050, 68096>>, <<68112, 68115>>, <<68117, 68119>>,
    <<68121, 68149>>, <<68160, 68168>>, <<68192, 68222>>, <<68224, 68255>>, <<68288, 68295>>, <<68297, 68324>>,
    <<68331, 68335>>, <<68352, 68405>>, <<68416, 68437>>, <<68440, 68466>>, <<68472, 68497>>, <<68521, 68527>>,
    <<68608, 68680>>, <<68736, 68786>>, <<68800, 68850>>, <<68858, 68899>>, <<68912, 68921>>, <<69216, 69246>>,
    <<69248, 69289>>, <<69296, 69297>>, <<69376, 69415>>, <<69424, 69445>>, <<69457, 69460>>, <<69488, 69505>>,
    <<69552, 69579>>, <<69600, 69622>>, <<69635, 69687>>, <<69714, 69743>>, <<69745, 69746>>, <<69749, 69749>>,
    <<69763, 69807>>, <<69840, 69864>>, <<69872, 69881>>, <<69891, 69926>>, <<69942, 69951>>, <<69956, 69956>>,
    <<69959, 69959>>, <<69968, 70002>>, <<70006, 70006>>, <<70019, 70066>>, <<70081, 70084>>, <<70096, 70106>>,
    <<70108, 70108>>, <<70113, 70132>>, <<70144, 70161>>, <<70163, 70187>>, <<70272, 70278>>, <<70280, 70280>>,
    <<70282, 70285>>, <<70287, 70301>>, <<70303, 70312>>, <<70320, 70366>>, <<70384, 70393>>, <<70405, 70412>>,
    <<70415, 70416>>, <<70419, 70440>>, <<70442, 70448>>, <<70450, 70451>>, <<70453, 70457>>, <<70461, 70461>>,
    <<70480, 70480>>, <<70493, 70497>>, <<70656, 70708>>, <<70727, 70730>>, <<70736, 70745>>, <<70751, 70753>>,
    <<70784, 70831>>, <<70852, 70853>>, <<70855, 70855>>, <<70864, 70873>>, <<71040, 71086>>, <<71128, 71131>>,
    <<71168, 71215>>, <<71236, 71236>>, <<71248, 71257>>, <<71296, 71338>>, <<71352, 71352>>, <<71360, 71369>>,
    <<71424, 71450>>, <<71472, 71483>>, <<71488, 71494>>, <<71680, 71723>>, <<71840, 71922>>, <<71935, 71942>>,
    <<71945, 71945>>, <<71948, 71955>>, <<71957, 71958>>, <<71960, 71983>>, <<71999, 71999>>, <<72001, 72001>>,
    <<72016, 72025>>, <<72096, 72103>>, <<72106, 72144>>, <<72161, 72161>>, <<72163, 72163>>, <<72192, 72192>>,
    <<72203, 72242>>, <<72250, 72250>>, <<72272, 72272>>, <<72284, 72329>>, <<72349, 72349>>, <<72368, 72440>>,
    <<72704, 72712>>, <<72714, 72750>>, <<72768, 72768>>, <<72784, 72812>>, <<72818, 72847>>, <<72960, 72966>>,
    <<72968, 72969>>, <<72971, 73008>>, <<73030, 73030>>, <<73040, 73049>>, <<73056, 73061>>, <<73063, 73064>>,
    <<73066, 73097>>, <<73112, 73112>>, <<73120, 73129>>, <<73440, 73458>>, <<73648, 73648>>, <<73664, 73684>>,
    <<73728, 74649>>, <<74752, 74862>>, <<74880, 75075>>, <<77712, 77808>>, <<77824, 78894>>, <<82944, 83526>>,
    <<92160, 92728>>, <<92736, 92766>>, <<92768, 92777>>, <<92784, 92862>>, <<92864, 92873>>, <<92880, 92909>>,
    <<92928, 92975>>, <<92992, 92995>>, <<93008, 93017>>, <<93019, 93025>>, <<93027, 93047>>, <<93053, 93071>>,
    <<93760, 93846>>, <<93952, 94026>>, <<94032, 94032>>, <<94099, 94111>>, <<94176, 94177>>, <<94179, 94179>>,
    <<94208, 100343>>, <<100352, 101589>>, <<101632, 101640>>, <<110576, 110579>>, <<110581, 110587>>, <<110589, 110590>>,
    <<110592, 110882>>, <<110928, 110930>>, <<110948, 110951>>, <<110960, 111355>>, <<113664, 113770>>, <<113776, 113788>>,
    <<113792, 113800>>, <<113808, 113817>>, <<119520, 119539>>, <<119648, 119672>>, <<119808, 119892>>, <<119894, 119964>>,
    <<119966, 119967>>, <<119970, 119970>>, <<119973, 119974>>, <<119977, 119980>>, <<119982, 119993>>, <<119995, 119995>>,
    <<119997, 120003>>, <<120005, 120069>>, <<120071, 120074>>, <<120077, 120084>>, <<120086, 120092>>, <<120094, 120121>>,
    <<120123, 120126>>, <<120128, 120132>>, <<120134, 120134>>, <<120138, 120144>>, <<120146, 120485>>, <<120488, 120512>>,
    <<120514, 120538>>, <<120540, 120570>>, <<120572, 120596>>, <<120598, 120628>>, <<120630, 120654>>, <<120656, 120686>>,
    <<120688, 120712>>, <<120714, 120744>>, <<120746, 120770>>, <<120772, 120779>>, <<120782, 120831>>, <<122624, 122654>>,
    <<123136, 123180>>, <<123191, 123197>>, <<123200, 123209>>, <<123214, 123214>>, <<123536, 123565>>, <<123584, 123627>>,
    <<123632, 123641>>, <<124896, 124902>>, <<124904, 124907>>, <<124909, 124910>>, <<124912, 124926>>, <<124928, 125124>>,
    <<125127, 125135>>, <<125184, 125251>>, <<125259, 125259>>, <<125264, 125273>>, <<126065, 126123>>, <<126125, 126127>>,
    <<126129, 126132>>, <<126209, 126253>>, <<126255, 126269>>, <<126464, 126467>>, <<126469, 126495>>, <<126497, 126498>>,
    <<126500, 126500>>, <<126503, 126503>>, <<126505, 126514>>, <<126516, 126519>>, <<126521, 126521>>, <<126523, 126523>>,
    <<126530, 126530>>, <<126535, 126535>>, <<126537, 126537>>, <<126539, 126539>>, <<126541, 126543>>, <<126545, 126546>>,
    <<126548, 126548>>, <<126551, 126551>>, <<126553, 126553>>, <<126555, 126555>>, <<126557, 126557>>, <<126559, 126559>>,
    <<126561, 126562>>, <<126564, 126564>>, <<126567, 126570>>, <<126572, 126578>>, <<126580, 126583>>, <<126585, 126588>>,
    <<126590, 126590>>, <<126592, 126601>>, <<126603, 126619>>, <<126625, 126627>>, <<126629, 126633>>, <<126635, 126651>>,
    <<127232, 127244>>, <<130032, 130041>>, <<131072, 173791>>, <<173824, 177976>>, <<177984, 178205>>, <<178208, 183969>>,
    <<183984, 191456>>, <<194560, 195101>>, <<196608, 201546>> }

Underscore == Ord("_")

\* \w on a str pattern: the alphanumerics and the underscore
IsWordChar(c) ==
    \/ c = Underscore
    \/ IF c < 256 THEN InRanges(c, AlnumLatin1) ELSE InRanges(c, AlnumAbove)

\* str.isspace()
SpaceLatin1 == {
    <<9, 13>>, <<28, 32>>, <<133, 133>>, <<160, 160>> }

SpaceAbove == {
    <<5760, 5760>>, <<8192, 8202>>, <<8232, 8233>>, <<8239, 8239>>, <<8287, 8287>>, <<12288, 12288>> }

\* \s on a str pattern, and what str.strip() removes
IsSpace(c) ==
    IF c < 256 THEN InRanges(c, SpaceLatin1) ELSE InRanges(c, SpaceAbove)

NL == Str(<<"\n">>)

NoneVal == [t |-> "none", s |-> <<>>]
IntVal(s) == [t |-> "int", s |-> s]
StrVal(s) == [t |-> "str", s |-> s]

RECURSIVE Join(_, _)
\* sep.join(parts)
Join(sep, parts) ==
    IF parts = <<>> THEN <<>>
    ELSE IF Len(parts) = 1 THEN parts[1]
    ELSE parts[1] \o sep \o Join(sep, Tail(parts))

\* s[a:b) as a str (1-based, b exclusive)
Slice(s, a, b) == [k \in 1..(b - a) |-> s[a + k - 1]]

----------------------------------------------------------------------------
(* TOKEN_RE = \b(\d+[A-Z])(\d{1,2})\b                                      *)

\* the class of the letter in group 1
TokenLetters == Upper

\* what the pattern asks of one character: \d, [A-Z], \w
CharKind(c) == [digit |-> IsDecimal(c), letter |-> c \in TokenLetters, word |-> IsWordChar(c)]

RECURSIVE Kinds(_)
\* the kinds of the characters of text, position by position
Kinds(text) ==
    IF text = <<>> THEN <<>> ELSE <<CharKind(Head(text))>> \o Kinds(Tail(text))

IsWordAt(kinds, k) == k \in 1..Len(kinds) /\ kinds[k].word

\* \b at the position before character i
WordBoundary(kinds, i) == IsWordAt(kinds, i - 1) # IsWordAt(kinds, i)

IsDigitAt(kinds, k) == k \in 1..Len(kinds) /\ kinds[k].digit

RECURSIVE DigitRun(_, _)
\* the number of consecutive \d characters from position i on
DigitRun(kinds, i) ==
    IF IsDigitAt(kinds, i) THEN 1 + DigitRun(kinds, i + 1) ELSE 0

NoMatch == [start |-> 0, end |-> 0, class_id |-> <<>>, period |-> <<>>]

\* the (a, b) for which the pattern matches at i with \d+ taking a characters
\* and \d{1,2} taking b
TokenFits(kinds, i) ==
    { ab \in (1..DigitRun(kinds, i)) \X (1..2) :
        /\ i + ab[1] <= Len(kinds)
        /\ kinds[i + ab[1]].letter
        /\ \A k \in (i + ab[1] + 1)..(i + ab[1] + ab[2]) : IsDigitAt(kinds, k)
        /\ WordBoundary(kinds, i + ab[1] + ab[2] + 1) }

\* the match the engine reports at i: both quantifiers are greedy, the first
\* one is tried longest first, then the second.  start = 0: no match at i.
TokenMatchAt(text, kinds, i) ==
    IF ~WordBoundary(kinds, i) THEN NoMatch
    ELSE LET fits == TokenFits(kinds, i)
         IN  IF fits = {} THEN NoMatch
             ELSE LET a == CHOOSE x \in {f[1] : f \in fits} :
                               \A y \in {f[1] : f \in fits} : y <= x
                      b == CHOOSE x \in {f[2] : f \in {g \in fits : g[1] = a}} :
                               \A y \in {f[2] : f \in {g \in fits : g[1] = a}} : y <= x
                  IN  [start    |-> i,
                       end      |-> i + a + 1 + b,
                       class_id |-> Slice(text, i, i + a + 1),
                       period   |-> Slice(text, i + a + 1, i + a + 1 + b)]

RECURSIVE FindFrom(_, _, _)
\* TOKEN_RE.finditer(text), scanning from position i: leftmost match first,
\* then on from its end
FindFrom(text, kinds, i) ==
    IF i > Len(text) THEN <<>>
    ELSE LET m == TokenMatchAt(text, kinds, i)
         IN  IF m.start = 0 THEN FindFrom(text, kinds, i + 1)
             ELSE <<m>> \o FindFrom(text, kinds, m.end)

TokenFinditer(text) == FindFrom(text, Kinds(text), 1)

----------------------------------------------------------------------------
(* Worksheets (openpyxl): max_row, max_column, the cell values and the      *)
(* merged ranges in the order ws.merged_cells.ranges yields them            *)

\* ws.cell(row, col).value
CellValue(ws, row, col) ==
    IF <<row, col>> \in DOMAIN ws.cells THEN ws.cells[<<row, col>>] ELSE NoneVal

RECURSIVE LStrip(_)
LStrip(s) == IF s # <<>> /\ IsSpace(Head(s)) THEN LStrip(Tail(s)) ELSE s

RECURSIVE RStrip(_)
RStrip(s) ==
    IF s # <<>> /\ IsSpace(s[Len(s)]) THEN RStrip(SubSeq(s, 1, Len(s) - 1)) ELSE s

\* s.strip()
Strip(s) == RStrip(LStrip(s))

RECURSIVE CollapseWs(_)
\* re.sub(r"\s+", " ", s)
CollapseWs(s) ==
    IF s = <<>> THEN <<>>
    ELSE IF IsSpace(Head(s))
    THEN Str(<<" ">>) \o CollapseWs(LStrip(s))
    ELSE <<Head(s)>> \o CollapseWs(Tail(s))

\* the markers of line 20: "-" and the three three-character markers of
\* the literal, by code point
DashMarkers == { <<45>>, <<212, 186, 231>>, <<8218, 196, 236>>, <<8218, 196, 238>> }

\* the characters line 20's strip() call removes: the space, "-" and the
\* characters of the three markers
PlaceholderChars == {32, 45, 186, 196, 212, 231, 236, 238, 8218}

\* _clean_text(x)
clean_text(x) ==
    IF x.t = "none" THEN <<>>
    ELSE LET s == Strip(x.s)
         IN  IF s \in DashMarkers \/ (\A k \in 1..Len(s) : s[k] \in PlaceholderChars)
             THEN <<>>
             ELSE CollapseWs(s)

\* the characters str.isdigit() accepts: the decimal digits, the
\* superscript, subscript, circled and other digit forms
DigitLatin1 == {
    <<48, 57>>, <<178, 179>>, <<185, 185>> }

DigitAbove == {
    <<1632, 1641>>, <<1776, 1785>>, <<1984, 1993>>, <<2406, 2415>>, <<2534, 2543>>, <<2662, 2671>>,
    <<2790, 2799>>, <<2918, 2927>>, <<3046, 3055>>, <<3174, 3183>>, <<3302, 3311>>, <<3430, 3439>>,
    <<3558, 3567>>, <<3664, 3673>>, <<3792, 3801>>, <<3872, 3881>>, <<4160, 4169>>, <<4240, 4249>>,
    <<4969, 4977>>, <<6112, 6121>>, <<6160, 6169>>, <<6470, 6479>>, <<6608, 6618>>, <<6784, 6793>>,
    <<6800, 6809>>, <<6992, 7001>>, <<7088, 7097>>, <<7232, 7241>>, <<7248, 7257>>, <<8304, 8304>>,
    <<8308, 8313>>, <<8320, 8329>>, <<9312, 9320>>, <<9332, 9340>>, <<9352, 9360>>, <<9450, 9450>>,
    <<9461, 9469>>, <<9471, 9471>>, <<10102, 10110>>, <<10112, 10120>>, <<10122, 10130>>, <<42528, 42537>>,
    <<43216, 43225>>, <<43264, 43273>>, <<43472, 43481>>, <<43504, 43513>>, <<43600, 43609>>, <<44016, 44025>>,
    <<65296, 65305>>, <<66720, 66729>>, <<68160, 68163>>, <<68912, 68921>>, <<69216, 69224>>, <<69714, 69722>>,
    <<69734, 69743>>, <<69872, 69881>>, <<69942, 69951>>, <<70096, 70105>>, <<70384, 70393>>, <<70736, 70745>>,
    <<70864, 70873>>, <<71248, 71257>>, <<71360, 71369>>, <<71472, 71481>>, <<71904, 71913>>, <<72016, 72025>>,
    <<72784, 72793>>, <<73040, 73049>>, <<73120, 73129>>, <<92768, 92777>>, <<92864, 92873>>, <<93008, 93017>>,
    <<120782, 120831>>, <<123200, 123209>>, <<123632, 123641>>, <<125264, 125273>>, <<127232, 127242>>, <<130032, 130041>> }

\* ch.isdigit()
IsDigitChar(c) ==
    IF c < 256 THEN InRanges(c, DigitLatin1) ELSE InRanges(c, DigitAbove)

\* val.isdigit()
IsDigitStr(val) == val # <<>> /\ \A k \in 1..Len(val) : IsDigitChar(val[k])

----------------------------------------------------------------------------
(* get_class_columns: the dict class_id -> data column as the sequence of   *)
(* its items <<class_id, column>> in insertion order                        *)

\* d[key] = value
DictSet(d, key, value) ==
    IF \E k \in 1..Len(d) : d[k][1] = key
    THEN [k \in 1..Len(d) |-> IF d[k][1] = key THEN <<key, value>> ELSE d[k]]
    ELSE Append(d, <<key, value>>)

HeaderRow == 1

\* truth of header_val in "if header_val"
HeaderAccepted(header_val) == header_val # <<>>

RECURSIVE MergedHeaders(_, _, _)
\* loop 1: the merged ranges lying in the header row
MergedHeaders(ws, k, acc) ==
    IF k > Len(ws.merged) THEN acc
    ELSE LET mr == ws.merged[k]
             header_val == clean_text(CellValue(ws, HeaderRow, mr.min_col))
         IN  IF /\ mr.min_row = HeaderRow /\ mr.max_row = HeaderRow
                /\ HeaderAccepted(header_val) /\ mr.min_col # 1
             THEN MergedHeaders(ws, k + 1,
                      [class_cols |-> DictSet(acc.class_cols, header_val, mr.max_col),
                       consumed_cols |-> acc.consumed_cols \cup (mr.min_col..mr.max_col)])
             ELSE MergedHeaders(ws, k + 1, acc)

RECURSIVE SingleHeaders(_, _, _)
\* loop 2: the header cells of columns 2..max_column outside the merged ones
SingleHeaders(ws, col, acc) ==
    IF col > ws.max_column THEN acc
    ELSE LET header_val == clean_text(CellValue(ws, HeaderRow, col))
         IN  IF col \notin acc.consumed_cols /\ HeaderAccepted(header_val)
             THEN SingleHeaders(ws, col + 1,
                      [acc EXCEPT !.class_cols = DictSet(@, header_val, col)])
             ELSE SingleHeaders(ws, col + 1, acc)

get_class_columns(ws) ==
    SingleHeaders(ws, 2,
        MergedHeaders(ws, 1, [class_cols |-> <<>>, consumed_cols |-> {}])).class_cols

----------------------------------------------------------------------------
(* get_period_blocks: a block is <<start_row, end_row, period>>             *)

RECURSIVE MergedBlocks(_, _)
\* loop 1: the blocks of the merged ranges of column A, in the ranges' order
MergedBlocks(ws, k) ==
    IF k > Len(ws.merged) THEN <<>>
    ELSE LET mr == ws.merged[k]
             val == clean_text(CellValue(ws, mr.min_row, 1))
         IN  IF /\ mr.min_col = 1 /\ mr.max_col = 1
                /\ IsDigitStr(val) /\ (mr.max_row - mr.min_row + 1) >= 3
             THEN << <<mr.min_row, mr.min_row + 2, val>> >> \o MergedBlocks(ws, k + 1)
             ELSE MergedBlocks(ws, k + 1)

RECURSIVE InsertByStart(_, _)
\* b put into the sorted bs after the blocks whose start row is not larger
InsertByStart(bs, b) ==
    IF bs = <<>> THEN <<b>>
    ELSE IF Head(bs)[1] <= b[1] THEN <<Head(bs)>> \o InsertByStart(Tail(bs), b)
    ELSE <<b>> \o bs

RECURSIVE SortByStart(_)
\* blocks.sort(key=lambda t: t[0]): a stable sort
SortByStart(bs) ==
    IF bs = <<>> THEN <<>>
    ELSE InsertByStart(SortByStart(SubSeq(bs, 1, Len(bs) - 1)), bs[Len(bs)])

\* one pass of the while loop of the fallback scan at row st.r
ScanStep(ws, st) ==
    LET val == clean_text(CellValue(ws, st.r, 1))
    IN  IF IsDigitStr(val) /\ st.r + 2 <= ws.max_row
        THEN [r |-> st.r + 3, blocks |-> Append(st.blocks, <<st.r, st.r + 2, val>>)]
        ELSE [r |-> st.r + 1, blocks |-> st.blocks]

RECURSIVE ScanLoop(_, _)
ScanLoop(ws, st) ==
    IF st.r <= ws.max_row THEN ScanLoop(ws, ScanStep(ws, st)) ELSE st.blocks

get_period_blocks(ws) ==
    IF MergedBlocks(ws, 1) # <<>>
    THEN SortByStart(MergedBlocks(ws, 1))
    ELSE ScanLoop(ws, [r |-> 1, blocks |-> <<>>])

----------------------------------------------------------------------------
(* extract_mapping and build_full_mapping: a dict of keys to suffixes is a  *)
(* function                                                                 *)

\* the suffix without the branches for a missing part
Suffix_AlwaysBoth(subject, teacher) ==
    Str(<<"(">>) \o subject \o Str(<<" ">>) \o teacher \o Str(<<")">>)

\* the suffix of a pair that is not empty
Suffix(subject, teacher) ==
    IF subject # <<>> /\ teacher # <<>>
    THEN Str(<<"(">>) \o subject \o Str(<<" ">>) \o teacher \o Str(<<")">>)
    ELSE IF subject # <<>>
    THEN Str(<<"(">>) \o subject \o Str(<<")">>)
    ELSE Str(<<"(">>) \o teacher \o Str(<<")">>)

\* mapping[key] = suffix
Store(mp, key, suffix) ==
    [k \in DOMAIN mp \cup {key} |-> IF k = key THEN suffix ELSE mp[k]]

RECURSIVE BlockLoop(_, _, _, _, _, _)
\* the inner loop over the period blocks for one class
BlockLoop(ws, class_id, data_col, period_blocks, k, mp) ==
    IF k > Len(period_blocks) THEN mp
    ELSE LET r1 == period_blocks[k][1]
             r3 == period_blocks[k][1] + 2
             subject == clean_text(CellValue(ws, r1, data_col))
             teacher == clean_text(CellValue(ws, r3, data_col))
             key == class_id \o period_blocks[k][3]
         IN  IF subject = <<>> /\ teacher = <<>>
             THEN BlockLoop(ws, class_id, data_col, period_blocks, k + 1, mp)
             ELSE BlockLoop(ws, class_id, data_col, period_blocks, k + 1,
                            Store(mp, key, Suffix(subject, teacher)))

RECURSIVE ClassLoop(_, _, _, _, _)
\* the outer loop over class_cols.items()
ClassLoop(ws, class_cols, period_blocks, k, mp) ==
    IF k > Len(class_cols) THEN mp
    ELSE ClassLoop(ws, class_cols, period_blocks, k + 1,
                   BlockLoop(ws, class_cols[k][1], class_cols[k][2], period_blocks, 1, mp))

extract_mapping(ws, class_cols, period_blocks) ==
    ClassLoop(ws, class_cols, period_blocks, 1, << >>)

\* the first value of a key kept: overall.setdefault(k, v) for each item of m
Update_KeepsFirst(ov, m) ==
    [k \in DOMAIN ov \cup DOMAIN m |-> IF k \in DOMAIN ov THEN ov[k] ELSE m[k]]

\* overall.update(m)
Update(ov, m) ==
    [k \in DOMAIN ov \cup DOMAIN m |-> IF k \in DOMAIN m THEN m[k] ELSE ov[k]]

RECURSIVE BuildFrom(_, _, _)
\* the loop over wb.worksheets from the k-th one on
BuildFrom(book, k, acc) ==
    IF k > Len(book) THEN acc
    ELSE LET class_cols == get_class_columns(book[k])
             period_blocks == get_period_blocks(book[k])
             m == extract_mapping(book[k], class_cols, period_blocks)
         IN  BuildFrom(book, k + 1,
                 [out |-> Append(acc.out, [class_cols |-> class_cols,
                                           period_blocks |-> period_blocks,
                                           m |-> m]),
                  overall |-> Update(acc.overall, m)])

\* build_full_mapping: the returned table, and each worksheet's locals
build_full_mapping(book) == BuildFrom(book, 1, [out |-> <<>>, overall |-> << >>])

----------------------------------------------------------------------------
(* annotate_schedule                                                       *)

\* key in mapping
InMapping(key, mp) == key \in DOMAIN mp

RECURSIVE MatchLoop_NoDedup(_, _, _, _, _, _)
\* the loop without the seen_keys test
MatchLoop_NoDedup(ms, k, cell, mp, seen_keys, acc) ==
    IF k > Len(ms) THEN acc
    ELSE LET key == ms[k].class_id \o ms[k].period
         IN  IF InMapping(key, mp)
             THEN MatchLoop_NoDedup(ms, k + 1, cell, mp, seen_keys \cup {key},
                                    [acc EXCEPT !.suffixes = Append(@, mp[key])])
             ELSE MatchLoop_NoDedup(ms, k + 1, cell, mp, seen_keys \cup {key},
                                    [acc EXCEPT !.unmatched =
                                        Append(@, <<cell.sheet, cell.coordinate, key, cell.value.s>>)])

RECURSIVE MatchLoop_Prepends(_, _, _, _, _, _)
\* the loop with suffixes.insert(0, ...) for suffixes.append(...)
MatchLoop_Prepends(ms, k, cell, mp, seen_keys, acc) ==
    IF k > Len(ms) THEN acc
    ELSE LET key == ms[k].class_id \o ms[k].period
         IN  IF key \in seen_keys
             THEN MatchLoop_Prepends(ms, k + 1, cell, mp, seen_keys, acc)
             ELSE IF InMapping(key, mp)
             THEN MatchLoop_Prepends(ms, k + 1, cell, mp, seen_keys \cup {key},
                                     [acc EXCEPT !.suffixes = <<mp[key]>> \o @])
             ELSE MatchLoop_Prepends(ms, k + 1, cell, mp, seen_keys \cup {key},
                                     [acc EXCEPT !.unmatched =
                                         Append(@, <<cell.sheet, cell.coordinate, key, cell.value.s>>)])

RECURSIVE MatchLoop(_, _, _, _, _, _)
\* the loop over matches of one cell: seen keys are skipped, a key of the
\* mapping contributes its suffix, any other key an unmatched row
MatchLoop(ms, k, cell, mp, seen_keys, acc) ==
    IF k > Len(ms) THEN acc
    ELSE LET key == ms[k].class_id \o ms[k].period
         IN  IF key \in seen_keys
             THEN MatchLoop(ms, k + 1, cell, mp, seen_keys, acc)
             ELSE IF InMapping(key, mp)
             THEN MatchLoop(ms, k + 1, cell, mp, seen_keys \cup {key},
                            [acc EXCEPT !.suffixes = Append(@, mp[key])])
             ELSE MatchLoop(ms, k + 1, cell, mp, seen_keys \cup {key},
                            [acc EXCEPT !.unmatched =
                                Append(@, <<cell.sheet, cell.coordinate, key, cell.value.s>>)])

\* the same-line variant: the suffixes follow the text after a space
NewVal_SameLine(text, suffixes) == text \o Str(<<" ">>) \o Join(Str(<<" ">>), suffixes)

\* the cell's value once its suffixes are known
NewVal(text, suffixes) == text \o NL \o Join(NL, suffixes)

\* the body with cells_updated += 1 for every text cell
AnnotateCell_CountsEveryText(cell, mp) ==
    IF cell.value.t # "str"
    THEN [cell |-> cell, updated |-> 0, unmatched |-> <<>>]
    ELSE LET text    == cell.value.s
             matches == TokenFinditer(text)
             res     == MatchLoop(matches, 1, cell, mp, {},
                                  [suffixes |-> <<>>, unmatched |-> <<>>])
         IN  IF res.suffixes # <<>>
             THEN [cell |-> [cell EXCEPT !.value = StrVal(text \o NL \o Join(NL, res.suffixes)),
                                         !.wrapText = TRUE],
                   updated |-> 1,
                   unmatched |-> res.unmatched]
             ELSE [cell |-> cell, updated |-> 1, unmatched |-> res.unmatched]

\* the body of the innermost loop for one cell: the cell afterwards, whether it
\* was counted in cells_updated, and the unmatched rows it added
AnnotateCell(cell, mp) ==
    IF cell.value.t # "str"
    THEN [cell |-> cell, updated |-> 0, unmatched |-> <<>>]
    ELSE LET text    == cell.value.s
             matches == TokenFinditer(text)
         IN  IF matches = <<>>
             THEN [cell |-> cell, updated |-> 0, unmatched |-> <<>>]
             ELSE LET res == MatchLoop(matches, 1, cell, mp, {},
                                     [suffixes |-> <<>>, unmatched |-> <<>>])
                  IN  IF res.suffixes # <<>>
                      THEN [cell |-> [cell EXCEPT !.value = StrVal(NewVal(text, res.suffixes)),
                                                  !.wrapText = TRUE],
                            updated |-> 1,
                            unmatched |-> res.unmatched]
                      ELSE [cell |-> cell, updated |-> 0, unmatched |-> res.unmatched]

RECURSIVE AnnotateFrom(_, _, _, _)
\* the sheet/row/cell loops from the k-th visited cell on
AnnotateFrom(book, k, mp, acc) ==
    IF k > Len(book) THEN acc
    ELSE LET res == AnnotateCell(book[k], mp)
         IN  AnnotateFrom(book, k + 1, mp,
                 [wb            |-> Append(acc.wb, res.cell),
                  cells_updated |-> acc.cells_updated + res.updated,
                  unmatched     |-> acc.unmatched \o res.unmatched])

\* annotate_schedule(wb, mapping): the workbook afterwards and the returned pair
annotate_schedule(book, mp) ==
    AnnotateFrom(book, 1, mp, [wb |-> <<>>, cells_updated |-> 0, unmatched |-> <<>>])

----------------------------------------------------------------------------
(* Inputs of the annotator                                                 *)

MaxWords == 2
MaxCells == 2
MaxRuns == 2

\* words a schedule cell is written with
Words == { Str(<<"1", "A", "1">>),              \* class 1A, period 1
           Str(<<"2", "B", "1", "2">>),         \* class 2B, period 12
           Str(<<"1", "F", "1">>),              \* a letter outside A-E
           Str(<<"2", "A", "/", "2", "C">>),    \* classes without a period
           <<1777>> \o Str(<<"A", "1">>),       \* an Arabic-Indic 1 (U+06F1), "A1"
           <<31185>> }                          \* a name, the CJK letter U+79D1

\* what stands between two words of a cell
Seps == { Str(<<" ">>), Str(<<"\n">>), <<>> }

RECURSIVE TextsOf(_)
\* the cell texts of exactly n words
TextsOf(n) ==
    IF n = 0 THEN { <<>> }
    ELSE IF n = 1 THEN Words
    ELSE { t \o s \o w : t \in TextsOf(n - 1), s \in Seps, w \in Words }

\* the cell values written with exactly n words (with none: the number 7,
\* not a text)
ValuesOf(n) ==
    IF n = 0 THEN { IntVal(Str(<<"7">>)) }
    ELSE { StrVal(t) : t \in TextsOf(n) }

Coordinates == << Str(<<"A", "1">>), Str(<<"B", "1">>), Str(<<"C", "1">>), Str(<<"D", "1">>) >>

SheetTitle == Str(<<"S", "1">>)

RECURSIVE ValueSeqs(_, _)
\* the sequences of n cell values written with at most w words in all
ValueSeqs(n, w) ==
    IF n = 0 THEN { <<>> }
    ELSE UNION { { <<v>> \o rest : v \in ValuesOf(k), rest \in ValueSeqs(n - 1, w - k) }
                 : k \in 0..w }

\* the workbook holding the cell values vs: one sheet, one row
Workbook(vs) ==
    [k \in 1..Len(vs) |-> [sheet |-> SheetTitle, coordinate |-> Coordinates[k],
                           value |-> vs[k], wrapText |-> FALSE]]

SuffixA == Str(<<"(", "M", " ", "X", ")">>)
SuffixB == Str(<<"(", "E", ")">>)
KeyA == Str(<<"1", "A", "1">>)
KeyB == Str(<<"2", "B", "1", "2">>)

\* the lookup tables handed to the annotator
Mappings == { << >>,
              (KeyA :> SuffixA),
              (KeyA :> SuffixA) @@ (KeyB :> SuffixB) }

----------------------------------------------------------------------------
(* The annotator as a state machine                                        *)

AnnIdle ==
    /\ wb = <<>> /\ mapping = << >> /\ cells_updated = 0
    /\ unmatched = <<>> /\ runs = 0 /\ wb_before = <<>>

BuildIdle == src = <<>> /\ out = <<>> /\ overall = << >> /\ built = FALSE

IdleSheet == [max_row |-> 0, max_column |-> 0, cells |-> << >>, merged |-> <<>>]

BlocksIdle ==
    /\ sheet = IdleSheet /\ pc = "idle" /\ r = 0 /\ blocks = <<>> /\ found_any = FALSE

AnnInit ==
    /\ BuildIdle
    /\ BlocksIdle
    /\ \E n \in 1..MaxCells : \E vs \in ValueSeqs(n, MaxWords) : wb = Workbook(vs)
    /\ mapping \in Mappings
    /\ cells_updated = 0
    /\ unmatched = <<>>
    /\ runs = 0
    /\ wb_before = wb

\* one call annotate_schedule(wb, mapping) on the workbook as it stands
Annotate ==
    /\ runs < MaxRuns
    /\ LET res == annotate_schedule(wb, mapping)
       IN  /\ wb' = res.wb
           /\ cells_updated' = res.cells_updated
           /\ unmatched' = res.unmatched
    /\ wb_before' = wb
    /\ runs' = runs + 1
    /\ UNCHANGED <<mapping, buildVars, blockVars>>

AnnNext == Annotate

SpecAnnotate == AnnInit /\ [][AnnNext]_vars

----------------------------------------------------------------------------
(* Inputs of the mapping builder: worksheets of three columns, a header row *)
(* and 3-row period blocks from row 2 on                                    *)

MaxSheets == 2

Range4(r1, r2, c1, c2) == [min_row |-> r1, max_row |-> r2, min_col |-> c1, max_col |-> c2]

Dash == StrVal(Str(<<"-">>))

\* a worksheet: headers hB, hC (B1:C1 merged or not), one block per period
\* of periods (their column-A ranges merged or not, listed last block first),
\* dataB[j] and dataC[j] the <<subject, teacher>> cells of block j
SourceSheet(hB, hC, hmerged, periods, vmerged, dataB, dataC) ==
    LET n == Len(periods)
        start(j) == 2 + 3 * (j - 1)
        val(row, col) ==
            IF row = 1
            THEN (IF col = 2 THEN hB ELSE IF col = 3 /\ ~hmerged THEN hC ELSE NoneVal)
            ELSE LET j == ((row - 2) \div 3) + 1
                     o == (row - 2) % 3
                 IN  IF col = 1 THEN (IF o = 0 THEN periods[j] ELSE NoneVal)
                     ELSE IF o = 1 THEN NoneVal
                     ELSE IF col = 2 THEN dataB[j][(o \div 2) + 1]
                     ELSE dataC[j][(o \div 2) + 1]
    IN  [max_row    |-> 1 + 3 * n,
         max_column |-> 3,
         cells      |-> [rc \in (1..(1 + 3 * n)) \X (1..3) |-> val(rc[1], rc[2])],
         merged     |-> (IF hmerged THEN <<Range4(1, 1, 2, 3)>> ELSE <<>>)
                        \o (IF vmerged
                            THEN [k \in 1..n |-> Range4(start(n + 1 - k), start(n + 1 - k) + 2, 1, 1)]
                            ELSE <<>>)]

SubjectM == StrVal(Str(<<"M">>))
SubjectE == StrVal(Str(<<"E">>))
TeacherTX == StrVal(Str(<<" ", "T", " ", " ", "X">>))

HeaderConfigs ==
    { <<hB, h[1], h[2]>> :
        hB \in { Dash, StrVal(Str(<<"1", "A">>)), StrVal(Str(<<"N", "o", "t", "e", "s">>)) },
        h \in { <<NoneVal, FALSE>>, <<StrVal(Str(<<"2", "B">>)), FALSE>>, <<NoneVal, TRUE>> } }

PairCells == { <<sub, tch>> : sub \in {Dash, SubjectM}, tch \in {NoneVal, TeacherTX} }

\* worksheets of two period blocks
TwoBlockSheets ==
    { SourceSheet(h[1], h[2], h[3], pv[1], pv[2], <<d1, d2>>,
                  << <<SubjectE, NoneVal>>, <<NoneVal, NoneVal>> >>) :
        h \in HeaderConfigs,
        pv \in { << <<StrVal(Str(<<"1">>)), StrVal(Str(<<"1">>))>>, FALSE >>,
                 << <<StrVal(Str(<<"1">>)), IntVal(Str(<<"2">>))>>, FALSE >>,
                 << <<StrVal(Str(<<"1">>)), IntVal(Str(<<"2">>))>>, TRUE >> },
        d1 \in PairCells, d2 \in PairCells }

\* worksheets of one period block for class 1A
OneBlockSheets ==
    { SourceSheet(StrVal(Str(<<"1", "A">>)), NoneVal, FALSE, <<StrVal(Str(<<"1">>))>>, FALSE,
                  << <<sub, tch>> >>, << <<NoneVal, NoneVal>> >>) :
        sub \in {Dash, SubjectM, SubjectE}, tch \in {NoneVal, TeacherTX} }

RECURSIVE OneBlockBooks(_)
OneBlockBooks(n) ==
    IF n = 0 THEN { <<>> }
    ELSE { Append(b, ws) : b \in OneBlockBooks(n - 1), ws \in OneBlockSheets }

\* the loaded source workbook: 1..MaxSheets worksheets, at most one of them
\* of two blocks
BuildInit ==
    /\ AnnIdle
    /\ BlocksIdle
    /\ \E n \in 1..MaxSheets :
           \/ src \in OneBlockBooks(n)
           \/ \E i \in 1..n : \E ws \in TwoBlockSheets :
                  \E a \in OneBlockBooks(i - 1) : \E b \in OneBlockBooks(n - i) :
                      src = a \o <<ws>> \o b
    /\ out = <<>>
    /\ overall = << >>
    /\ built = FALSE

\* the call build_full_mapping(file_a_bytes) on the loaded workbook
Build ==
    /\ ~built
    /\ LET res == build_full_mapping(src)
       IN  /\ out' = res.out
           /\ overall' = res.overall
    /\ built' = TRUE
    /\ UNCHANGED <<src, annVars, blockVars>>

BuildNext == Build

SpecBuild == BuildInit /\ [][BuildNext]_vars

----------------------------------------------------------------------------
(* Inputs of get_period_blocks: column A of up to MaxRows rows with up to   *)
(* MaxMerges merged ranges, and the function as a state machine             *)

MaxRows == 6
MaxMerges == 2

\* what a cell of column A holds: nothing, the text "1", the number 2, the
\* text "x", a superscript two (U+00B2), an Arabic-Indic 1 (U+06F1)
ColAValues == { NoneVal, StrVal(Str(<<"1">>)), IntVal(Str(<<"2">>)), StrVal(Str(<<"x">>)),
                StrVal(<<178>>), StrVal(<<1777>>) }

\* the vertical ranges of column A within n rows, of 2 to 4 rows
VRanges(n) ==
    { Range4(p[1], p[2], 1, 1) : p \in { q \in (1..n) \X (1..n) : q[2] - q[1] \in 1..3 } }

Disjoint(rg1, rg2) == rg1.max_row < rg2.min_row \/ rg2.max_row < rg1.min_row

RECURSIVE MergeSeqs(_, _)
\* the sequences of at most k pairwise disjoint ranges within n rows
MergeSeqs(n, k) ==
    IF k = 0 THEN { <<>> }
    ELSE LET prev == MergeSeqs(n, k - 1)
         IN  prev \cup
             { Append(p[1], p[2]) :
                 p \in { q \in prev \X VRanges(n) :
                           /\ Len(q[1]) = k - 1
                           /\ \A i \in 1..Len(q[1]) : Disjoint(q[1][i], q[2]) } }

\* a merged range holds a value in its first cell only
Covered(ms, row) == \E i \in 1..Len(ms) : ms[i].min_row < row /\ row <= ms[i].max_row

\* the worksheet handed to get_period_blocks: column A of 1..MaxRows rows
BlocksInit ==
    /\ AnnIdle
    /\ BuildIdle
    /\ \E n \in 1..MaxRows : \E ms \in MergeSeqs(n, MaxMerges) :
           \E col \in [1..n -> ColAValues] :
               /\ \A row \in 1..n : Covered(ms, row) => col[row] = NoneVal
               /\ sheet = [max_row    |-> n,
                           max_column |-> 1,
                           cells      |-> [rc \in (1..n) \X {1} |-> col[rc[1]]],
                           merged     |-> ms]
    /\ pc = "start"
    /\ r = 0
    /\ blocks = <<>>
    /\ found_any = FALSE

\* lines 73-86: the loop over the merged ranges, and the sorted return
MergedPass ==
    /\ pc = "start"
    /\ LET mb == MergedBlocks(sheet, 1)
       IN  /\ found_any' = (mb # <<>>)
           /\ IF mb # <<>>
              THEN /\ blocks' = SortByStart(mb)
                   /\ pc' = "done"
                   /\ r' = r
              ELSE /\ blocks' = <<>>
                   /\ pc' = "scan"
                   /\ r' = 1
    /\ UNCHANGED <<sheet, annVars, buildVars>>

\* lines 91-97: one pass of the while loop
ScanRow ==
    /\ pc = "scan"
    /\ r <= sheet.max_row
    /\ LET st == ScanStep(sheet, [r |-> r, blocks |-> blocks])
       IN  /\ r' = st.r
           /\ blocks' = st.blocks
    /\ UNCHANGED <<sheet, pc, found_any, annVars, buildVars>>

\* line 91 false, line 99
ScanReturn ==
    /\ pc = "scan"
    /\ r > sheet.max_row
    /\ pc' = "done"
    /\ UNCHANGED <<sheet, r, blocks, found_any, annVars, buildVars>>

BlocksNext == MergedPass \/ ScanRow \/ ScanReturn

\* the interpreter runs the function on: a step that can be taken is taken
SpecBlocks == BlocksInit /\ [][BlocksNext]_vars /\ WF_vars(BlocksNext)

----------------------------------------------------------------------------
(* Vocabulary of the annotator's properties, stated on the text itself     *)

RECURSIVE SplitOn(_, _, _)
\* the pieces of s between the characters of seps, in order; cur is the piece
\* being read
SplitOn(s, seps, cur) ==
    IF s = <<>> THEN <<cur>>
    ELSE IF Head(s) \in seps THEN <<cur>> \o SplitOn(Tail(s), seps, <<>>)
    ELSE SplitOn(Tail(s), seps, Append(cur, Head(s)))

\* the lines of a text
Lines(text) == SplitOn(text, {NL[1]}, <<>>)

RECURSIVE WordsFrom(_, _)
\* the words of s, in order; cur is the word being read
WordsFrom(s, cur) ==
    LET done == IF cur = <<>> THEN <<>> ELSE <<cur>>
    IN  IF s = <<>> THEN done
        ELSE IF IsWordChar(Head(s)) THEN WordsFrom(Tail(s), Append(cur, Head(s)))
        ELSE done \o WordsFrom(Tail(s), <<>>)

\* the maximal runs of word characters of a text, in order
WordsOf(text) == WordsFrom(text, <<>>)

\* w is <digits><one letter of letters><one or two digits>
HasTokenShape(w, letters) ==
    \E a \in 1..(Len(w) - 2) :
        /\ \A k \in 1..a : IsDecimal(w[k])
        /\ w[a + 1] \in letters
        /\ Len(w) - (a + 1) \in {1, 2}
        /\ \A k \in (a + 2)..Len(w) : IsDecimal(w[k])

RECURSIVE Distinct(_, _)
\* s without the repetitions of an element already met
Distinct(s, met) ==
    IF s = <<>> THEN <<>>
    ELSE IF Head(s) \in met THEN Distinct(Tail(s), met)
    ELSE <<Head(s)>> \o Distinct(Tail(s), met \cup {Head(s)})

\* the distinct keys a text holds, in order of first occurrence
KeysOf(text) ==
    Distinct(SelectSeq(WordsOf(text), LAMBDA w : HasTokenShape(w, Upper)), {})

Range(s) == { s[k] : k \in 1..Len(s) }

IsText(k) == wb_before[k].value.t = "str"

TextBefore(k) == wb_before[k].value.s

\* the unmatched rows of the last run that refer to the k-th cell
RowsFor(k) ==
    SelectSeq(unmatched, LAMBDA row : row[1] = wb_before[k].sheet
                                      /\ row[2] = wb_before[k].coordinate)

Changed(k) == wb[k] # wb_before[k]

HitKeys(k) == SelectSeq(KeysOf(TextBefore(k)), LAMBDA key : key \in DOMAIN mapping)

MissKeys(k) == SelectSeq(KeysOf(TextBefore(k)), LAMBDA key : key \notin DOMAIN mapping)

Ran == runs >= 1 /\ Len(wb) = Len(wb_before)

----------------------------------------------------------------------------
(* Properties of annotate_schedule (specification SpecAnnotate)            *)

\* the number of lines of the k-th cell, after the run, that are the suffix sfx
SuffixLines(k, sfx) ==
    Cardinality({ i \in 1..Len(Lines(wb[k].value.s)) : Lines(wb[k].value.s)[i] = sfx })

\* C1: a second run on the workbook the first run produced, with the same
\* table, changes no cell (its changed-cell count is 0) and no cell holds the
\* same suffix twice.
C1_SecondRunChangesNothing ==
    runs = 2 =>
        /\ cells_updated = 0
        /\ wb = wb_before
        /\ \A k \in 1..Len(wb) : \A key \in DOMAIN mapping :
               wb[k].value.t = "str" => SuffixLines(k, mapping[key]) <= 1

\* C2 as claimed: a text cell holding a token whose key is not in the table is
\* left unchanged and gets exactly one unmatched row, whatever other tokens
\* the cell holds.
C2_MissLeavesCellAlone ==
    Ran => \A k \in 1..Len(wb) :
        (IsText(k) /\ MissKeys(k) # <<>>) =>
            /\ ~Changed(k)
            /\ Len(RowsFor(k)) = 1

\* C2, amended: every text cell gets exactly one unmatched row (sheet, cell
\* address, key, original text) per distinct token key that is not in the
\* table, in order of first occurrence, and the cell is left unchanged exactly
\* when none of its token keys is in the table.
C2_OneRowPerMissingKey ==
    Ran => \A k \in 1..Len(wb) :
        IsText(k) =>
            LET miss == MissKeys(k)
            IN  /\ RowsFor(k) = [i \in 1..Len(miss) |->
                                    <<wb_before[k].sheet, wb_before[k].coordinate,
                                      miss[i], TextBefore(k)>>]
                /\ (HitKeys(k) = <<>> <=> ~Changed(k))

\* the cell U+06F1 "A1 1A1": the first token is not in the table and is
\* reported, the second is and changes the cell
C2_Witness ==
    /\ runs = 1
    /\ \E k \in 1..Len(wb) :
           /\ TextBefore(k) = <<1777>> \o Str(<<"A", "1", " ", "1", "A", "1">>)
           /\ MissKeys(k) = << <<1777>> \o Str(<<"A", "1">>) >>
           /\ HitKeys(k) = << Str(<<"1", "A", "1">>) >>
           /\ Len(RowsFor(k)) = 1
           /\ Changed(k)

\* the token-shaped words of a text, repetitions included
TokenWords(text) == SelectSeq(WordsOf(text), LAMBDA w : HasTokenShape(w, Upper))

\* C3: a one-line text cell T with exactly one token, whose key maps to S,
\* becomes T, a newline, S; it is counted once in the changed-cell count and
\* gets no unmatched row.
C3_NewLineVariant ==
    Ran => /\ cells_updated = Cardinality({ k \in 1..Len(wb) : Changed(k) })
           /\ \A k \in 1..Len(wb) :
                IsText(k) =>
                    LET tokens == TokenWords(TextBefore(k))
                    IN  (/\ Len(Lines(TextBefore(k))) = 1
                         /\ Len(tokens) = 1
                         /\ tokens[1] \in DOMAIN mapping) =>
                            /\ wb[k].value = StrVal(TextBefore(k) \o NL \o mapping[tokens[1]])
                            /\ Changed(k)
                            /\ RowsFor(k) = <<>>

C3_Witness ==
    /\ runs = 1
    /\ cells_updated = 1
    /\ \E k \in 1..Len(wb) :
           /\ wb_before[k].value = StrVal(Str(<<"1", "A", "1", " ">>) \o <<31185>>)
           /\ wb[k].value = StrVal(Str(<<"1", "A", "1", " ">>) \o <<31185>>
                                   \o Str(<<"\n", "(", "M", " ", "X", ")">>))

ClassLettersAE == Ord("A")..Ord("E")

\* C4: only <digits><letter A-E><one or two digits> is a token: every key
\* that is looked up and reported as unmatched has a letter A-E, and a cell
\* changes only if it holds such a key that is in the table, so "1F1" and
\* "3Z12" are never looked up, annotated or reported.
C4_OnlyLettersAtoE ==
    Ran => \A k \in 1..Len(wb) :
        IsText(k) =>
            /\ \A row \in Range(RowsFor(k)) : HasTokenShape(row[3], ClassLettersAE)
            /\ Changed(k) => \E key \in Range(WordsOf(TextBefore(k))) :
                                 /\ HasTokenShape(key, ClassLettersAE)
                                 /\ key \in DOMAIN mapping

\* C7: a cell without a class+period token (a non-text cell, a text such as
\* "2A/2C") is not counted, keeps its value and gets no unmatched row.
C7_NoTokenNoEffect ==
    Ran => /\ cells_updated <=
                Cardinality({ k \in 1..Len(wb) : IsText(k) /\ KeysOf(TextBefore(k)) # <<>> })
           /\ \A k \in 1..Len(wb) :
                (~IsText(k) \/ KeysOf(TextBefore(k)) = <<>>) =>
                    /\ wb[k] = wb_before[k]
                    /\ RowsFor(k) = <<>>

C7_Witness ==
    /\ runs = 1
    /\ Len(wb) = 2
    /\ wb_before[1].value = StrVal(Str(<<"2", "A", "/", "2", "C">>))
    /\ wb[1] = wb_before[1]
    /\ Changed(2)
    /\ cells_updated = 1

RECURSIVE PerLine(_, _)
\* the lines of a cell when each resolved suffix directly follows the line of
\* its token
PerLine(lines, mp) ==
    IF lines = <<>> THEN <<>>
    ELSE LET hits == SelectSeq(KeysOf(Head(lines)), LAMBDA key : key \in DOMAIN mp)
         IN  <<Head(lines)>> \o [i \in 1..Len(hits) |-> mp[hits[i]]]
                             \o PerLine(Tail(lines), mp)

\* C9 as claimed: in a cell of several lines the suffix of the token on line i
\* is inserted directly after line i.
C9_SuffixFollowsItsLine ==
    Ran => \A k \in 1..Len(wb) :
        (IsText(k) /\ HitKeys(k) # <<>>) =>
            Lines(wb[k].value.s) = PerLine(Lines(TextBefore(k)), mapping)

\* C9, amended: the suffixes of a cell's resolved tokens are appended as new
\* lines after the cell's last line, one per distinct key in order of first
\* occurrence; the original lines keep their order.
C9_SuffixesFollowTheCell ==
    Ran => \A k \in 1..Len(wb) :
        IsText(k) =>
            LET hits == HitKeys(k)
            IN  hits # <<>> =>
                    Lines(wb[k].value.s) =
                        Lines(TextBefore(k)) \o [i \in 1..Len(hits) |-> mapping[hits[i]]]

C9_Witness ==
    /\ runs = 1
    /\ \E k \in 1..Len(wb) :
           /\ TextBefore(k) = Str(<<"1", "A", "1", "\n", "2", "B", "1", "2">>)
           /\ Lines(wb[k].value.s) = << Str(<<"1", "A", "1">>), Str(<<"2", "B", "1", "2">>),
                                        SuffixA, SuffixB >>

----------------------------------------------------------------------------
(* Properties of the mapping builder (specification SpecBuild)             *)

Last(S) == CHOOSE x \in S : \A y \in S : y <= x

\* the worksheets whose own mapping defines key
DefinedBy(key) == { i \in 1..Len(out) : key \in DOMAIN out[i].m }

\* C5: a key defined by several worksheets holds, in the returned table, the
\* value of the last worksheet that defines it; a key defined by one worksheet
\* holds that worksheet's value; the table has no other key.
C5_LastWriteWins ==
    built =>
        /\ Len(out) = Len(src)
        /\ DOMAIN overall = UNION { DOMAIN out[i].m : i \in 1..Len(out) }
        /\ \A key \in DOMAIN overall :
               overall[key] = out[Last(DefinedBy(key))].m[key]

C5_Witness ==
    /\ built
    /\ Len(src) = 2
    /\ \E key \in DOMAIN overall :
           /\ DefinedBy(key) = {1, 2}
           /\ out[1].m[key] # out[2].m[key]
           /\ overall[key] = out[2].m[key]
    /\ \E key \in DOMAIN overall :
           /\ DefinedBy(key) = {1}
           /\ overall[key] = out[1].m[key]

\* the subject and teacher of class column c and block b of worksheet i
SubjectAt(i, c, b) ==
    clean_text(CellValue(src[i], out[i].period_blocks[b][1], out[i].class_cols[c][2]))

TeacherAt(i, c, b) ==
    clean_text(CellValue(src[i], out[i].period_blocks[b][1] + 2, out[i].class_cols[c][2]))

KeyAt(i, c, b) == out[i].class_cols[c][1] \o out[i].period_blocks[b][3]

\* the value the claim gives a pair that is not empty
Composed(subject, teacher) ==
    CASE subject # <<>> /\ teacher # <<>> ->
             Str(<<"(">>) \o subject \o Str(<<" ">>) \o teacher \o Str(<<")">>)
      [] subject # <<>> /\ teacher = <<>> -> Str(<<"(">>) \o subject \o Str(<<")">>)
      [] subject = <<>> /\ teacher # <<>> -> Str(<<"(">>) \o teacher \o Str(<<")">>)

\* the (class column, period block) pairs of worksheet i, and the place of a
\* pair in extract_mapping's order of visit
Pairs(i) == (1..Len(out[i].class_cols)) \X (1..Len(out[i].period_blocks))

Place(i, p) == (p[1] - 1) * Len(out[i].period_blocks) + p[2]

Filled(i, p) == SubjectAt(i, p[1], p[2]) # <<>> \/ TeacherAt(i, p[1], p[2]) # <<>>

\* C6 as claimed: every pair with a subject or a teacher has, under its key
\* class-id+period, the value composed from that very pair.
C6_EveryPairHoldsItsValue ==
    built => \A i \in 1..Len(src) : \A p \in Pairs(i) :
        Filled(i, p) =>
            /\ KeyAt(i, p[1], p[2]) \in DOMAIN out[i].m
            /\ out[i].m[KeyAt(i, p[1], p[2])] =
                   Composed(SubjectAt(i, p[1], p[2]), TeacherAt(i, p[1], p[2]))

\* C6, amended: the worksheet's entry for a key is the value composed, as the
\* claim says, from the last visited pair with that key that has a subject
\* or a teacher; a pair with neither creates no entry (and leaves an earlier
\* pair's entry in place); a key that no such pair has is not in the table.
C6_LastFilledPairHoldsItsValue ==
    built => \A i \in 1..Len(src) :
        /\ DOMAIN out[i].m = { KeyAt(i, p[1], p[2]) : p \in { q \in Pairs(i) : Filled(i, q) } }
        /\ \A p \in Pairs(i) :
               (/\ Filled(i, p)
                /\ \A q \in Pairs(i) :
                       (Filled(i, q) /\ KeyAt(i, q[1], q[2]) = KeyAt(i, p[1], p[2]))
                           => Place(i, q) <= Place(i, p))
               => out[i].m[KeyAt(i, p[1], p[2])] =
                      Composed(SubjectAt(i, p[1], p[2]), TeacherAt(i, p[1], p[2]))

C6_Witness ==
    /\ built
    /\ Len(src) = 1
    /\ out[1].class_cols = << << Str(<<"1", "A">>), 2 >> >>
    /\ Len(out[1].period_blocks) = 2
    /\ KeyAt(1, 1, 1) = KeyAt(1, 1, 2)
    /\ SubjectAt(1, 1, 1) = Str(<<"M">>) /\ TeacherAt(1, 1, 1) = Str(<<"T", " ", "X">>)
    /\ SubjectAt(1, 1, 2) = <<>> /\ TeacherAt(1, 1, 2) = Str(<<"T", " ", "X">>)
    /\ out[1].m = (Str(<<"1", "A", "1">>) :> Str(<<"(", "T", " ", "X", ")">>))

\* w is <digits><letter A-E>
IsClassId(w) ==
    /\ Len(w) >= 2
    /\ \A k \in 1..(Len(w) - 1) : IsDecimal(w[k])
    /\ w[Len(w)] \in ClassLettersAE

\* C8: blank and malformed row-1 headers are skipped by get_class_columns, so
\* every class column is <digits><letter A-E> and every key of the table
\* built by build_full_mapping has such a class part.
C8_OnlyWellFormedHeaders ==
    built =>
        /\ \A i \in 1..Len(src) : \A c \in 1..Len(out[i].class_cols) :
               IsClassId(out[i].class_cols[c][1])
        /\ \A key \in DOMAIN overall :
               \E i \in 1..Len(src) : \E p \in Pairs(i) :
                   /\ key = KeyAt(i, p[1], p[2])
                   /\ IsClassId(out[i].class_cols[p[1]][1])

----------------------------------------------------------------------------
(* Properties of get_period_blocks (specification SpecBlocks)              *)

ColumnA(row) == clean_text(CellValue(sheet, row, 1))

\* val writes an integer period number: decimal digits and nothing else
IsIntegerStr(val) == val # <<>> /\ \A k \in 1..Len(val) : IsDecimal(val[k])

\* the merged ranges of column A that hold an integer and span 3 rows or more
PeriodRanges ==
    { k \in 1..Len(sheet.merged) :
        /\ sheet.merged[k].min_col = 1 /\ sheet.merged[k].max_col = 1
        /\ sheet.merged[k].max_row - sheet.merged[k].min_row + 1 >= 3
        /\ IsIntegerStr(ColumnA(sheet.merged[k].min_row)) }

\* the fallback scan was entered
Scanned == r >= 1

BlocksReturned ==
    /\ \A i \in 1..Len(blocks) :
           /\ blocks[i] = <<blocks[i][1], blocks[i][1] + 2, ColumnA(blocks[i][1])>>
           /\ IsIntegerStr(blocks[i][3])
           /\ blocks[i][2] <= sheet.max_row
    /\ \A i, j \in 1..Len(blocks) : i < j => blocks[i][2] < blocks[j][1]
    /\ Scanned <=> PeriodRanges = {}
    /\ Scanned =>
           \A row \in 1..sheet.max_row :
               (\E i \in 1..Len(blocks) : blocks[i][1] = row) <=>
                   /\ IsIntegerStr(ColumnA(row))
                   /\ row + 2 <= sheet.max_row
                   /\ ~\E i \in 1..Len(blocks) : blocks[i][1] < row /\ row <= blocks[i][2]

\* C10: get_period_blocks returns, and what it returns are blocks
\* (r, r+2, p), p the integer string of column A at row r, in ascending row
\* order and disjoint; the fallback scan runs exactly when no merged range of
\* column A holds an integer over 3 rows or more, and then a block starts at
\* every integer cell with two rows below it that no earlier block covers.
C10_PeriodBlocks ==
    /\ [](pc = "done" => BlocksReturned)
    /\ <>(pc = "done")

=============================================================================
